---- MODULE Spec2Model ----
(***************************************************************************)
(* Workspace import / export of jupyterlab/labapp.py.                      *)
(*                                                                         *)
(* Strings are sequences of characters.  A JSON text (the content of a     *)
(* file, or what a command prints) is a sequence of tokens, each token a   *)
(* sequence of characters.  A JSON value is a tagged record.               *)
(***************************************************************************)
EXTENDS Naturals, Sequences, FiniteSets, TLC

VARIABLES dirExists, files, slugOf, last, prev, proc

vars == <<dirExists, files, slugOf, last, prev, proc>>

---------------------------------------------------------------------------
(* Bounds of the model *)

\* number of distinct `data` payloads a document may carry
NumPayloads == 2

---------------------------------------------------------------------------
(* Configuration read by load_config / LabApp *)

page_url == <<"/", "l">>
workspaces_url == <<"/", "l", "/", "w">>

\* the names a file of the workspaces directory can have (slug + extension)
Slugs == {"s1", "s2"}

---------------------------------------------------------------------------
(* Python string operations *)

StartsWith(s, p) ==
    /\ Len(p) <= Len(s)
    /\ SubSeq(s, 1, Len(p)) = p

RECURSIVE LStrip(_)
LStrip(s) == IF s # <<>> /\ Head(s) = "/" THEN LStrip(Tail(s)) ELSE s

RECURSIVE RStrip(_)
RStrip(s) ==
    IF s # <<>> /\ s[Len(s)] = "/" THEN RStrip(SubSeq(s, 1, Len(s) - 1)) ELSE s

Strip(s) == RStrip(LStrip(s))

\* notebook.utils.url_path_join for two pieces
ujoin(a, b) ==
    LET initial == a # <<>> /\ Head(a) = "/"
        final == b # <<>> /\ b[Len(b)] = "/"
        sa == Strip(a)
        sb == Strip(b)
        joined == IF sa = <<>> THEN sb
                  ELSE IF sb = <<>> THEN sa
                  ELSE sa \o <<"/">> \o sb
        r1 == IF initial THEN <<"/">> \o joined ELSE joined
        r2 == IF final THEN r1 \o <<"/">> ELSE r1
    IN  IF r2 = <<"/", "/">> THEN <<"/">> ELSE r2

---------------------------------------------------------------------------
(* JSON values *)

Num == [t |-> "num"]
Str(s) == [t |-> "str", s |-> s]
Obj(m) == [t |-> "obj", m |-> m]
NoVal == [t |-> "none"]

EmptyMap == [k \in {} |-> Num]

\* the n-th `data` payload: {} for 0, {"k": "1..1"} (n ones) otherwise
Payload(n) ==
    IF n = 0 THEN Obj(EmptyMap)
    ELSE Obj([k \in {"k"} |-> Str([i \in 1..n |-> "1"])])

DataVals == {Payload(n) : n \in 0..(NumPayloads - 1)}

\* faulty variant: the synthesized workspace always carries page_url
EmptyWorkspaceOfPage(raw) ==
    Obj([k \in {"data", "metadata"} |->
            IF k = "data" THEN Obj(EmptyMap)
            ELSE Obj([j \in {"id"} |-> Str(page_url)])])

\* dict(data=dict(), metadata=dict(id=raw))
EmptyWorkspace(raw) ==
    Obj([k \in {"data", "metadata"} |->
            IF k = "data" THEN Obj(EmptyMap)
            ELSE Obj([j \in {"id"} |-> Str(raw)])])

---------------------------------------------------------------------------
(* json.dumps: the text of a value, keys in a fixed order, no whitespace *)

KeyOrder == <<"data", "k", "metadata", "id", "extra">>

RECURSIVE dumps(_)
RECURSIVE DumpMembers(_, _, _)
DumpMembers(m, i, first) ==
    IF i > Len(KeyOrder) THEN <<>>
    ELSE IF KeyOrder[i] \in DOMAIN m
         THEN (IF first THEN <<>> ELSE << <<",">> >>)
              \o << <<KeyOrder[i]>>, <<":">> >>
              \o dumps(m[KeyOrder[i]])
              \o DumpMembers(m, i + 1, FALSE)
         ELSE DumpMembers(m, i + 1, first)

dumps(v) ==
    CASE v.t = "num" -> << <<"5">> >>
      [] v.t = "str" -> << <<"'">> \o v.s >>
      [] v.t = "obj" -> << <<"{">> >> \o DumpMembers(v.m, 1, TRUE) \o << <<"}">> >>

---------------------------------------------------------------------------
(* The documents and source files the commands are run on *)

MkMeta(idv) == Obj([j \in (IF idv.t = "none" THEN {} ELSE {"id"}) |-> idv])

MkDoc(d, md, extra) ==
    Obj([k \in (IF d.t = "none" THEN {} ELSE {"data"})
               \cup (IF md.t = "none" THEN {} ELSE {"metadata"})
               \cup (IF extra THEN {"extra"} ELSE {}) |->
            CASE k = "data" -> d
              [] k = "metadata" -> md
              [] k = "extra" -> Num])

NamedId == ujoin(workspaces_url, <<"f">>)
GluedId == workspaces_url \o <<"x">>
OtherId == <<"/", "x">>

IdStrings == {page_url, NamedId, GluedId, OtherId}

InputDocs ==
    {MkDoc(d, MkMeta(Str(s)), FALSE) : d \in DataVals, s \in IdStrings}
    \cup {MkDoc(Payload(0), MkMeta(Num), FALSE),
          MkDoc(Payload(0), MkMeta(Str(page_url)), TRUE),
          MkDoc(NoVal, MkMeta(Str(page_url)), FALSE),
          MkDoc(NoVal, MkMeta(Str(OtherId)), FALSE),
          MkDoc(NoVal, NoVal, FALSE),
          MkDoc(Payload(0), NoVal, FALSE),
          MkDoc(Payload(0), MkMeta(NoVal), FALSE),
          MkDoc(Payload(0), Num, FALSE),
          Num}

\* every value whose text the model can meet
JsonUniverse == InputDocs \cup {EmptyWorkspace(s) : s \in IdStrings}

DumpTable == [v \in JsonUniverse |-> dumps(v)]

WS == <<" ">>

\* the same document written with whitespace between its tokens
Pretty(text) == <<Head(text), WS>> \o Tail(text) \o <<WS>>

\* a text cut short: not valid JSON
Truncated(text) == SubSeq(text, 1, Len(text) - 1)

SourceTexts ==
    {dumps(v) : v \in InputDocs}
    \cup {<<>>, Pretty(dumps(MkDoc(Payload(1), MkMeta(Str(page_url)), FALSE))),
          Truncated(dumps(MkDoc(Payload(0), MkMeta(Str(page_url)), FALSE)))}

---------------------------------------------------------------------------
(* json.load: whitespace is skipped; a text that is the text of no value   *)
(* raises JSONDecodeError                                                  *)

NotWS(tok) == tok # WS

loads(text) ==
    LET s == SelectSeq(text, NotWS)
    IN  IF \E v \in JsonUniverse : DumpTable[v] = s
        THEN [ok |-> TRUE, val |-> CHOOSE v \in JsonUniverse : DumpTable[v] = s]
        ELSE [ok |-> FALSE, val |-> NoVal]

---------------------------------------------------------------------------
(* LabWorkspaceImportApp._validate *)

\* an exception raised at the n-th check, with the kind of its message
Raise(n, e) == [ok |-> FALSE, rule |-> n, err |-> e, val |-> NoVal]
Return(w) == [ok |-> TRUE, rule |-> 0, err |-> "", val |-> w]

\* faulty variant: the prefix must end at a path-segment boundary
IdAcceptedAtBoundary(id, pu, wu) ==
    \/ id = pu
    \/ /\ StartsWith(id, wu)
       /\ \/ Len(id) = Len(wu)
          \/ wu[Len(wu)] = "/"
          \/ id[Len(wu) + 1] = "/"

\* faulty variant: the identity check is left out
IdAcceptedAlways(id, pu, wu) == TRUE

\* `id != page_url and not id.startswith(workspaces_url)` is false
IdAccepted(id, pu, wu) == id = pu \/ StartsWith(id, wu)

\* faulty variant: `metadata` is looked for before `data`
ChecksMetadataFirst(r, pu, wu) ==
    IF ~r.ok THEN Raise(1, "JSONDecodeError")
    ELSE IF r.val.t # "obj" THEN Raise(3, "TypeError")
    ELSE IF "metadata" \notin DOMAIN r.val.m THEN Raise(3, "metadata")
    ELSE IF "data" \notin DOMAIN r.val.m THEN Raise(2, "data")
    ELSE IF r.val.m["metadata"].t # "obj" THEN Raise(4, "TypeError")
    ELSE IF "id" \notin DOMAIN r.val.m["metadata"].m THEN Raise(4, "id")
    ELSE IF r.val.m["metadata"].m["id"].t # "str"
         THEN Raise(5, "AttributeError")
    ELSE IF ~IdAccepted(r.val.m["metadata"].m["id"].s, pu, wu)
         THEN Raise(5, "mismatch")
    ELSE Return(r.val)

\* the checks of _validate on what json.load gave: `key in v` raises
\* TypeError on a number; v[key] and v.startswith raise TypeError and
\* AttributeError on what is no object and no string
Checks(r, pu, wu) ==
    IF ~r.ok THEN Raise(1, "JSONDecodeError")
    ELSE IF r.val.t # "obj" THEN Raise(2, "TypeError")
    ELSE IF "data" \notin DOMAIN r.val.m THEN Raise(2, "data")
    ELSE IF "metadata" \notin DOMAIN r.val.m THEN Raise(3, "metadata")
    ELSE IF r.val.m["metadata"].t # "obj" THEN Raise(4, "TypeError")
    ELSE IF "id" \notin DOMAIN r.val.m["metadata"].m THEN Raise(4, "id")
    ELSE IF r.val.m["metadata"].m["id"].t # "str"
         THEN Raise(5, "AttributeError")
    ELSE IF ~IdAccepted(r.val.m["metadata"].m["id"].s, pu, wu)
         THEN Raise(5, "mismatch")
    ELSE Return(r.val)

_validate(text, pu, wu) == Checks(loads(text), pu, wu)

\* _validate on each source file, computed once
validated ==
    [t \in SourceTexts |-> _validate(t, page_url, workspaces_url)]

---------------------------------------------------------------------------
(* jupyterlab_server.slugify and the workspaces directory *)

base_url == <<"/">>

\* faulty variant: the identifier is ignored, every workspace gets one name
slugifyOfPage(raw, base) == slugOf[page_url]

\* slugify is a deterministic function of the identifier (base_url is fixed);
\* which identifiers share a file name is not known to this module
slugify(raw, base) == slugOf[raw]

\* the file names are interchangeable, so page_url's is fixed; OtherId is
\* accepted by no validation and so never reaches slugify
SlugMaps ==
    {f \in [IdStrings -> Slugs] : f[page_url] = "s1" /\ f[OtherId] = "s1"}

\* open(workspace_path, 'w'): the file is created, or truncated
Truncate(fs, slug) ==
    [s \in DOMAIN fs \cup {slug} |-> IF s = slug THEN <<>> ELSE fs[s]]

\* fid.write(text) at offset 0 of an open file, what lies beyond is kept
WriteAt0(fs, slug, text) ==
    [fs EXCEPT ![slug] =
        text \o SubSeq(fs[slug], Len(text) + 1, Len(fs[slug]))]

\* faulty variant: an existing file is opened without truncation ('r+')
WriteWorkspaceInPlace(fs, slug, w) ==
    WriteAt0(IF slug \in DOMAIN fs THEN fs ELSE Truncate(fs, slug), slug, dumps(w))

\* with open(workspace_path, 'w') as fid: fid.write(json.dumps(workspace))
WriteWorkspace(fs, slug, w) == WriteAt0(Truncate(fs, slug), slug, dumps(w))

---------------------------------------------------------------------------
(* What an invocation did: the record of the last command run *)

NoRun ==
    [op |-> "none", nargs |-> 0, args |-> <<>>, src |-> <<>>, srcExists |-> FALSE,
     raw |-> <<>>, fault |-> "none", dirBefore |-> FALSE, fileBefore |-> FALSE,
     exit |-> 0, kind |-> "", rule |-> 0, reason |-> "", slug |-> "", text |-> <<>>,
     val |-> NoVal]

Summary(l) == [op |-> l.op, exit |-> l.exit, val |-> l.val]

Idle == [pc |-> "idle", val |-> NoVal, slug |-> "", stamp |-> 0]

Procs == {"A", "B"}

Init ==
    /\ dirExists = FALSE
    /\ files = [s \in {} |-> <<>>]
    /\ slugOf \in SlugMaps
    /\ last = NoRun
    /\ prev = Summary(NoRun)
    /\ proc = [p \in Procs |-> Idle]

---------------------------------------------------------------------------
(* LabWorkspaceImportApp.start, run to its end without interruption *)

\* the invocation ends before it touched the workspaces directory
ImportExit(nargs, exists, text, kind, rule, reason) ==
    [NoRun EXCEPT !.op = "import", !.nargs = nargs, !.src = text,
                  !.srcExists = exists, !.dirBefore = dirExists,
                  !.exit = 1, !.kind = kind, !.rule = rule, !.reason = reason]

\* faulty variant: the directory is made before the source file is validated
ImportMkdirFirst(nargs, exists, text, mkOk, openOk) ==
    LET v == validated[text]
        slug == slugify(v.val.m["metadata"].m["id"].s, base_url)
        ran == [NoRun EXCEPT !.op = "import", !.nargs = nargs, !.src = text,
                             !.srcExists = exists, !.dirBefore = dirExists]
    IN  /\ prev' = Summary(last)
        /\ UNCHANGED <<slugOf, proc>>
        /\ IF nargs # 1
           THEN /\ last' = ImportExit(nargs, FALSE, <<>>, "usage", 0, "")
                /\ UNCHANGED <<dirExists, files>>
           ELSE IF ~exists
           THEN /\ last' = ImportExit(nargs, FALSE, <<>>, "nofile", 0, "")
                /\ UNCHANGED <<dirExists, files>>
           ELSE IF ~v.ok
           THEN /\ last' = ImportExit(nargs, TRUE, text, "invalid", v.rule, v.err)
                /\ dirExists' = TRUE
                /\ UNCHANGED files
           ELSE IF ~dirExists /\ ~mkOk
           THEN /\ last' = [ran EXCEPT !.exit = 1, !.kind = "mkdirfail",
                                       !.fault = "mkdir"]
                /\ UNCHANGED <<dirExists, files>>
           ELSE IF ~openOk
           THEN /\ last' = [ran EXCEPT !.exit = 1, !.kind = "traceback",
                                       !.fault = "open",
                                       !.fileBefore = slug \in DOMAIN files]
                /\ dirExists' = TRUE
                /\ UNCHANGED files
           ELSE /\ last' = [ran EXCEPT !.exit = 0, !.kind = "saved",
                                       !.slug = slug, !.val = v.val,
                                       !.fileBefore = slug \in DOMAIN files]
                /\ dirExists' = TRUE
                /\ files' = WriteWorkspace(files, slug, v.val)

Import(nargs, exists, text, mkOk, openOk) ==
    LET v == validated[text]
        slug == slugify(v.val.m["metadata"].m["id"].s, base_url)
        ran == [NoRun EXCEPT !.op = "import", !.nargs = nargs, !.src = text,
                             !.srcExists = exists, !.dirBefore = dirExists]
    IN  /\ prev' = Summary(last)
        /\ UNCHANGED <<slugOf, proc>>
        /\ IF nargs # 1
           THEN /\ last' = ImportExit(nargs, FALSE, <<>>, "usage", 0, "")
                /\ UNCHANGED <<dirExists, files>>
           ELSE IF ~exists
           THEN /\ last' = ImportExit(nargs, FALSE, <<>>, "nofile", 0, "")
                /\ UNCHANGED <<dirExists, files>>
           ELSE IF ~v.ok
           THEN /\ last' = ImportExit(nargs, TRUE, text, "invalid", v.rule, v.err)
                /\ UNCHANGED <<dirExists, files>>
           ELSE IF ~dirExists /\ ~mkOk
           THEN /\ last' = [ran EXCEPT !.exit = 1, !.kind = "mkdirfail",
                                       !.fault = "mkdir"]
                /\ UNCHANGED <<dirExists, files>>
           ELSE IF ~openOk
           THEN /\ last' = [ran EXCEPT !.exit = 1, !.kind = "traceback",
                                       !.fault = "open",
                                       !.fileBefore = slug \in DOMAIN files]
                /\ dirExists' = TRUE
                /\ UNCHANGED files
           ELSE /\ last' = [ran EXCEPT !.exit = 0, !.kind = "saved",
                                       !.slug = slug, !.val = v.val,
                                       !.fileBefore = slug \in DOMAIN files]
                /\ dirExists' = TRUE
                /\ files' = WriteWorkspace(files, slug, v.val)

---------------------------------------------------------------------------
(* LabWorkspaceExportApp.start *)

ExportArgs == {<<>>, << <<"f">> >>, << <<"/", "f">> >>, << <<"f">>, <<"g">> >>}

\* raw = page_url if not extra_args else ujoin(workspaces_url, extra_args[0])
Target(args) ==
    IF args = <<>> THEN page_url ELSE ujoin(workspaces_url, args[1])

\* faulty variant: the test for the file is inverted
ExportInverted(args, openOk, readOk) ==
    LET raw == Target(args)
        slug == slugify(raw, base_url)
        ran == [NoRun EXCEPT !.op = "export", !.nargs = Len(args),
                             !.args = args, !.dirBefore = dirExists]
    IN  /\ prev' = Summary(last)
        /\ UNCHANGED <<dirExists, files, slugOf, proc>>
        /\ IF Len(args) > 1
           THEN last' = [ran EXCEPT !.exit = 1, !.kind = "usage"]
           ELSE IF slug \in DOMAIN files
           THEN last' = [ran EXCEPT !.raw = raw, !.fileBefore = TRUE,
                                    !.kind = "json",
                                    !.text = dumps(EmptyWorkspace(raw))]
           ELSE last' = [ran EXCEPT !.raw = raw, !.exit = 1,
                                    !.kind = "traceback"]

Export(args, openOk, readOk) ==
    LET raw == Target(args)
        slug == slugify(raw, base_url)
        ran == [NoRun EXCEPT !.op = "export", !.nargs = Len(args),
                             !.args = args, !.dirBefore = dirExists]
    IN  /\ prev' = Summary(last)
        /\ UNCHANGED <<dirExists, files, slugOf, proc>>
        /\ IF Len(args) > 1
           THEN last' = [ran EXCEPT !.exit = 1, !.kind = "usage"]
           ELSE IF slug \notin DOMAIN files
           THEN last' = [ran EXCEPT !.raw = raw, !.kind = "json",
                                    !.text = dumps(EmptyWorkspace(raw))]
           ELSE IF ~openOk
           THEN last' = [ran EXCEPT !.raw = raw, !.fileBefore = TRUE,
                                    !.fault = "open", !.exit = 1,
                                    !.kind = "traceback"]
           ELSE IF ~readOk
           THEN last' = [ran EXCEPT !.raw = raw, !.fileBefore = TRUE,
                                    !.fault = "read", !.kind = "json",
                                    !.text = dumps(EmptyWorkspace(raw))]
           ELSE last' = [ran EXCEPT !.raw = raw, !.fileBefore = TRUE,
                                    !.kind = "json", !.text = files[slug]]

---------------------------------------------------------------------------

\* the environment's faults are drawn only where the call they hit is made
RunImport ==
    \/ \E nargs \in {0, 2} : Import(nargs, FALSE, <<>>, TRUE, TRUE)
    \/ Import(1, FALSE, <<>>, TRUE, TRUE)
    \/ \E text \in SourceTexts, mkOk \in BOOLEAN, openOk \in BOOLEAN :
        /\ (mkOk /\ openOk) \/ validated[text].ok
        /\ mkOk \/ (~dirExists /\ openOk)
        /\ Import(1, TRUE, text, mkOk, openOk)

RunExport ==
    \E args \in ExportArgs, openOk \in BOOLEAN, readOk \in BOOLEAN :
        /\ \/ openOk /\ readOk
           \/ Len(args) <= 1 /\ slugify(Target(args), base_url) \in DOMAIN files
        /\ openOk \/ readOk
        /\ Export(args, openOk, readOk)

Next == RunImport \/ RunExport

Spec == Init /\ [][Next]_vars

---------------------------------------------------------------------------
(* Two invocations of LabWorkspaceImportApp.start run as two processes:    *)
(* each system call on the workspaces directory is a step of its own       *)

\* lines 155-179: the arguments, the source file and its validation
ImpStart(p, nargs, exists, text) ==
    /\ proc[p].pc = "idle"
    /\ proc' = [proc EXCEPT ![p] =
         IF nargs # 1 \/ ~exists \/ ~validated[text].ok
         THEN [Idle EXCEPT !.pc = "exit1"]
         ELSE [Idle EXCEPT !.pc = "checkdir", !.val = validated[text].val]]
    /\ UNCHANGED <<dirExists, files, slugOf, last, prev>>

\* line 181: os.path.exists(directory)
ImpCheckDir(p) ==
    /\ proc[p].pc = "checkdir"
    /\ proc' = [proc EXCEPT ![p].pc = IF dirExists THEN "open" ELSE "mkdir"]
    /\ UNCHANGED <<dirExists, files, slugOf, last, prev>>

\* lines 182-186: os.makedirs raises when the directory exists by now
ImpMkdir(p, mkOk) ==
    /\ proc[p].pc = "mkdir"
    /\ IF dirExists \/ ~mkOk
       THEN /\ proc' = [proc EXCEPT ![p].pc = "exit1"]
            /\ UNCHANGED dirExists
       ELSE /\ proc' = [proc EXCEPT ![p].pc = "open"]
            /\ dirExists' = TRUE
    /\ UNCHANGED <<files, slugOf, last, prev>>

\* lines 188-192: the slug, and open(workspace_path, 'w')
ImpOpen(p, openOk) ==
    LET slug == slugify(proc[p].val.m["metadata"].m["id"].s, base_url)
    IN  /\ proc[p].pc = "open"
        /\ IF openOk
           THEN /\ proc' = [proc EXCEPT ![p].pc = "write", ![p].slug = slug]
                /\ files' = Truncate(files, slug)
           ELSE /\ proc' = [proc EXCEPT ![p].pc = "exit1"]
                /\ UNCHANGED files
        /\ UNCHANGED <<dirExists, slugOf, last, prev>>

\* lines 193-195: the buffered text is written when the file is closed
ImpWrite(p) ==
    /\ proc[p].pc = "write"
    /\ files' = WriteAt0(files, proc[p].slug, dumps(proc[p].val))
    /\ proc' = [proc EXCEPT
                  ![p].pc = "done",
                  ![p].stamp = 1 + Cardinality({q \in Procs : proc[q].stamp > 0})]
    /\ UNCHANGED <<dirExists, slugOf, last, prev>>

ImportStep(p) ==
    \/ \E nargs \in {0, 2} : ImpStart(p, nargs, FALSE, <<>>)
    \/ ImpStart(p, 1, FALSE, <<>>)
    \/ \E text \in SourceTexts : ImpStart(p, 1, TRUE, text)
    \/ ImpCheckDir(p)
    \/ \E mkOk \in BOOLEAN : ImpMkdir(p, mkOk)
    \/ \E openOk \in BOOLEAN : ImpOpen(p, openOk)
    \/ ImpWrite(p)

NextConc == \E p \in Procs : ImportStep(p)

SpecConc == Init /\ [][NextConc]_vars

---------------------------------------------------------------------------
(* Properties *)

DocId(w) == w.m["metadata"].m["id"].s
DocData(w) == w.m["data"]

\* p is the leading part of s, character by character
PrefixOf(p, s) == \E n \in 0..Len(s) : SubSeq(s, 1, n) = p

\* p is a prefix of s that ends where a path segment of s ends
PathPrefixOf(p, s) ==
    /\ PrefixOf(p, s)
    /\ \/ Len(s) = Len(p)
       \/ p[Len(p)] = "/"
       \/ s[Len(p) + 1] = "/"

HasData(w) == w.t = "obj" /\ "data" \in DOMAIN w.m
HasMetadata(w) == w.t = "obj" /\ "metadata" \in DOMAIN w.m
HasId(w) ==
    /\ HasMetadata(w)
    /\ w.m["metadata"].t = "obj"
    /\ "id" \in DOMAIN w.m["metadata"].m
HasStringId(w) == HasId(w) /\ w.m["metadata"].m["id"].t = "str"
IdInNamespace(w) ==
    /\ HasStringId(w)
    /\ DocId(w) = page_url \/ PrefixOf(workspaces_url, DocId(w))

\* the rules of the validator that a source text breaks
RulesBroken(text) ==
    LET r == loads(text)
    IN  {k \in 1..5 :
            \/ k = 1 /\ ~r.ok
            \/ k = 2 /\ r.ok /\ ~HasData(r.val)
            \/ k = 3 /\ r.ok /\ ~HasMetadata(r.val)
            \/ k = 4 /\ r.ok /\ ~HasId(r.val)
            \/ k = 5 /\ r.ok /\ ~IdInNamespace(r.val)}

Least(S) == CHOOSE k \in S : \A j \in S : k <= j

ImportRan == last.op = "import" /\ last.nargs = 1 /\ last.srcExists
ImportSaved == last.op = "import" /\ last.exit = 0

\* the identifier a test name stands for: workspaces_url, "/", the name
NameId(args) ==
    IF args = <<>> THEN page_url
    ELSE workspaces_url \o <<"/">> \o SelectSeq(args[1], LAMBDA c : c # "/")

EmptyDoc(id) == MkDoc(Payload(0), MkMeta(Str(id)), FALSE)

\* C1: an export without argument that directly follows a successful import
\* of a document whose metadata.id is page_url, and meets no fault of the
\* file system, prints a JSON document with the imported data and metadata.id
C1_RoundTrip ==
    (/\ prev.op = "import" /\ prev.exit = 0
     /\ DocId(prev.val) = page_url
     /\ last.op = "export" /\ last.nargs = 0 /\ last.fault = "none")
    => /\ last.exit = 0
       /\ last.kind = "json"
       /\ loads(last.text).ok
       /\ HasData(loads(last.text).val)
       /\ HasStringId(loads(last.text).val)
       /\ DocData(loads(last.text).val) = DocData(prev.val)
       /\ DocId(loads(last.text).val) = page_url

C1_Witness ==
    /\ prev.op = "import" /\ prev.exit = 0
    /\ DocId(prev.val) = page_url
    /\ DocData(prev.val) = Payload(1)
    /\ last.op = "export" /\ last.nargs = 0 /\ last.fault = "none"
    /\ last.text = dumps(prev.val)

\* C2: an import with an argument count other than one, a missing source
\* file or a source that breaks a rule of the validator exits with status 1
\* and leaves the workspaces directory and every file as they were
C2_RejectedImportLeavesStore ==
    [][(/\ last'.op = "import"
        /\ \/ last'.nargs # 1
           \/ ~last'.srcExists
           \/ RulesBroken(last'.src) # {})
       => /\ last'.exit = 1
          /\ last'.kind \in {"usage", "nofile", "invalid"}
          /\ dirExists' = dirExists
          /\ files' = files]_vars

C2_Witness ==
    /\ ImportRan
    /\ last.exit = 1
    /\ last.kind = "invalid"
    /\ last.rule = 5
    /\ ~dirExists

C4_ExportNeverHardFails ==
    (/\ last.op = "export" /\ last.nargs <= 1
     /\ slugOf[last.raw] \in DOMAIN files
     /\ last.fault # "none" \/ ~loads(files[slugOf[last.raw]]).ok)
    => /\ last.exit = 0
       /\ last.text = dumps(EmptyDoc(last.raw))

StructurallyComplete(text) ==
    /\ loads(text).ok
    /\ HasData(loads(text).val)
    /\ HasStringId(loads(text).val)

\* C5, as claimed: a structurally complete document is accepted if and only
\* if its id is page_url or has workspaces_url as a prefix that ends at a
\* path-segment boundary, and is otherwise rejected as an identity mismatch
C5_PathPrefixIdentity ==
    (ImportRan /\ StructurallyComplete(last.src)) =>
        IF \/ DocId(loads(last.src).val) = page_url
           \/ PathPrefixOf(workspaces_url, DocId(loads(last.src).val))
        THEN last.kind # "invalid"
        ELSE last.kind = "invalid" /\ last.reason = "mismatch"

\* C5, amended: a structurally complete document is accepted if and only if
\* its id is page_url or begins with the characters of workspaces_url, and
\* is otherwise rejected as an identity mismatch
C5_StringPrefixIdentity ==
    (ImportRan /\ StructurallyComplete(last.src)) =>
        IF \/ DocId(loads(last.src).val) = page_url
           \/ PrefixOf(workspaces_url, DocId(loads(last.src).val))
        THEN last.kind # "invalid"
        ELSE last.kind = "invalid" /\ last.reason = "mismatch"

C5_Witness ==
    /\ ImportRan
    /\ last.src = dumps(MkDoc(Payload(0), MkMeta(Str(GluedId)), FALSE))
    /\ last.kind = "saved"
    /\ files[last.slug] = last.src

C6_AfterSecond ==
    (/\ prev.op = "import" /\ prev.exit = 0
     /\ ImportSaved
     /\ DocId(prev.val) = DocId(last.val))
    => /\ last.fileBefore
       /\ files[slugOf[DocId(last.val)]] = dumps(last.val)
       /\ loads(files[slugOf[DocId(last.val)]]).val = last.val

C6_SecondStep ==
    (/\ ImportSaved
     /\ last'.op = "import" /\ last'.exit = 0
     /\ DocId(last'.val) = DocId(last.val))
    => /\ DOMAIN files' = DOMAIN files
       /\ \A s \in DOMAIN files \ {slugOf[DocId(last.val)]} :
              files'[s] = files[s]
       /\ last'.val = last.val => files' = files /\ dirExists' = dirExists

\* C6: after two successive successful imports of documents with one
\* metadata.id the file of its slug holds the text of the second document
\* and nothing else, no file was added, and a second import of the same
\* document changes nothing
C6_OverwriteNotMerge == [](C6_AfterSecond) /\ [][C6_SecondStep]_vars

C6_Witness ==
    /\ prev.op = "import" /\ prev.exit = 0
    /\ ImportSaved
    /\ DocId(prev.val) = DocId(last.val)
    /\ DocData(prev.val) = Payload(1)
    /\ DocData(last.val) = Payload(0)
    /\ files[last.slug] = dumps(last.val)

C7_Printed ==
    (/\ last.op = "export" /\ last.nargs <= 1
     /\ slugOf[NameId(last.args)] \notin DOMAIN files)
    => /\ last.exit = 0
       /\ last.kind = "json"
       /\ last.text = dumps(EmptyDoc(NameId(last.args)))

C7_NothingCreated ==
    (/\ last'.op = "export" /\ last'.nargs <= 1
     /\ slugOf[NameId(last'.args)] \notin DOMAIN files)
    => files' = files /\ dirExists' = dirExists

\* C7: when the file of the resolved slug is absent, export exits with
\* status 0 and prints the empty workspace whose id is page_url without
\* argument and workspaces_url joined with the name otherwise, and creates
\* no file and no directory
C7_ExportOfAbsent == [](C7_Printed) /\ [][C7_NothingCreated]_vars

C7_Witness ==
    /\ last.op = "export"
    /\ last.args = << <<"f">> >>
    /\ ~dirExists
    /\ last.exit = 0
    /\ last.text = dumps(EmptyDoc(<<"/", "l", "/", "w", "/", "f">>))

\* C8: a successful import into an absent workspaces directory creates the
\* directory and exactly one file, named by the slug of metadata.id, that
\* holds the validated document, and reports that file
C8_ImportCreatesDirAndFile ==
    (ImportSaved /\ ~last.dirBefore) =>
        /\ RulesBroken(last.src) = {}
        /\ last.val = loads(last.src).val
        /\ dirExists
        /\ last.kind = "saved"
        /\ last.slug = slugOf[DocId(last.val)]
        /\ DOMAIN files = {last.slug}
        /\ files[last.slug] = dumps(last.val)

C8_Witness ==
    /\ ImportSaved
    /\ ~last.dirBefore
    /\ DocId(last.val) = NamedId
    /\ slugOf[NamedId] # slugOf[page_url]
    /\ DOMAIN files = {slugOf[NamedId]}

C9_EveryFileValid ==
    \A s \in DOMAIN files :
        /\ loads(files[s]).ok
        /\ HasData(loads(files[s]).val)
        /\ IdInNamespace(loads(files[s]).val)

C9_NoFileDeleted == DOMAIN files \subseteq DOMAIN files'

LastWriter == CHOOSE p \in Procs : \A q \in Procs : proc[q].stamp <= proc[p].stamp

\* C10: once two concurrent imports of valid documents with one metadata.id
\* have both finished, the file of the slug holds exactly the text of the
\* document written last
C10_LastWriterWins ==
    (/\ \A p \in Procs : proc[p].pc = "done"
     /\ DocId(proc["A"].val) = DocId(proc["B"].val))
    => files[proc[LastWriter].slug] = dumps(proc[LastWriter].val)

====
